---------------------------- MODULE Spec2Model ----------------------------
(***************************************************************************)
(* Course management views (Task1/views.py): registration, login, logout,  *)
(* the student dashboard (enroll / drop, at most two courses) and the      *)
(* faculty dashboard (create / update / delete of one's own courses),      *)
(* over the user, student-profile and course stores.                       *)
(*                                                                         *)
(* Spec     : every request is handled as one atomic step.                 *)
(* ConcSpec : register, login and student-dashboard requests are handled   *)
(*            by worker threads, one store access per step.                *)
(***************************************************************************)
EXTENDS Integers, Sequences, FiniteSets, TLC

VARIABLES users, students, courses, nextCourseId, session, resp, req

vars == <<users, students, courses, nextCourseId, session, resp, req>>
db == <<users, students, courses, nextCourseId>>

---------------------------------------------------------------------------
(* Bounds of the model *)

MaxUsers == 2
MaxCourses == 3
CatalogCourses == 2

(* Program constant: the enrollment limit *)
MaxEnrolled == 2

---------------------------------------------------------------------------
(* Request inputs.  Usernames and submitted roles are sequences of          *)
(* characters, because the views inspect them (startswith, lower).          *)

Usernames == { <<"a","l","i","c","e">>,
               <<"f","a","c","u","l","t","y","1">>,
               <<"f","a","c">> }
Emails == {"a@x.com", "b@x.com"}
Passwords == {"pw"}
RoleInputs == { <<"s","t","u","d","e","n","t">>,
                <<"S","t","u","d","e","n","t">>,
                <<"f","a","c","u","l","t","y">>,
                <<"T","A">> }
Absent == "<absent>"
NoCourseId == [kind |-> "absent"]
CourseIdInputs(maxCourses) ==
    {NoCourseId, [kind |-> "text"]}
        \cup {[kind |-> "num", id |-> i] : i \in 1..(maxCourses + 1)}

(* A register form: every field filled, or exactly one left out *)
FullForms(usernames, roles) ==
    [username : usernames, email : Emails, password : Passwords, role : roles]

SampleForm == [username |-> <<"a","l","i","c","e">>, email |-> "b@x.com",
               password |-> "pw", role |-> <<"s","t","u","d","e","n","t">>]

RegisterInputs(usernames, roles) ==
    FullForms(usernames, roles)
        \cup { [SampleForm EXCEPT !.username = <<>>], [SampleForm EXCEPT !.role = <<>>],
               [SampleForm EXCEPT !.email = ""], [SampleForm EXCEPT !.password = ""] }

(* A course form: name, code and credits, each possibly left out *)
Form(name, code, credits) == [name |-> name, code |-> code, credits |-> credits]
NoForm == Form(Absent, Absent, Absent)

(* The enrollment scope: up to MaxCourses courses, all with the same name,  *)
(* code and credits.  The catalog scope: up to CatalogCourses courses whose *)
(* name, code and credits each take two values.                             *)
EnrollScope == [maxCourses |-> MaxCourses, usernames |-> Usernames,
                roles |-> RoleInputs,
                forms |-> {Form("n1", "c1", "3"), Form("n1", "c1", "abc"), NoForm}]
CatalogScope == [maxCourses |-> CatalogCourses,
                 usernames |-> {<<"a","l","i","c","e">>,
                                <<"f","a","c","u","l","t","y","1">>},
                 roles |-> {<<"s","t","u","d","e","n","t">>,
                            <<"f","a","c","u","l","t","y">>},
                 forms |-> {Form("n1", "c1", "3"), Form("n2", "c2", "4"),
                            Form("n2", Absent, Absent), Form("n1", "c1", "abc"),
                            NoForm}]
StudentActions == {"enroll", "drop", "other"}

---------------------------------------------------------------------------
(* String helpers *)

UpperChars == <<"A","B","C","D","E","F","G","H","I","J","K","L","M",
                "N","O","P","Q","R","S","T","U","V","W","X","Y","Z">>
LowerChars == <<"a","b","c","d","e","f","g","h","i","j","k","l","m",
                "n","o","p","q","r","s","t","u","v","w","x","y","z">>

LowerChar(c) ==
    IF \E i \in 1..26 : UpperChars[i] = c
    THEN LowerChars[CHOOSE i \in 1..26 : UpperChars[i] = c]
    ELSE c

Lower(s) == [i \in 1..Len(s) |-> LowerChar(s[i])]

StartsWith(s, p) == Len(s) >= Len(p) /\ SubSeq(s, 1, Len(p)) = p

FacultyPrefix == <<"f","a","c","u","l","t","y">>
StudentWord == <<"s","t","u","d","e","n","t">>

---------------------------------------------------------------------------
(* Responses *)

Redirect(to, msg) == [status |-> "redirect", to |-> to, msg |-> msg]
Render(template, msg) == [status |-> "render", to |-> template, msg |-> msg]
ServerError == [status |-> "error", to |-> "none", msg |-> "Unhandled"]
NoResponse == [status |-> "none", to |-> "none", msg |-> "none"]

---------------------------------------------------------------------------
(* Stores *)

UserIds == DOMAIN users
Anonymous == 0

UsernameNeverExists(username) == FALSE
UsernameExists(username) == \E u \in UserIds : users[u].username = username
EmailExists(email) == \E u \in UserIds : users[u].email = email

(* The user table refuses a row whose username or email is already stored. *)
StoreAcceptsUser(us, username, email) ==
    \A u \in DOMAIN us : us[u].username /= username /\ us[u].email /= email

HasProfileIn(st, u) == \E p \in DOMAIN st : st[p].user = u
HasProfile(u) == HasProfileIn(students, u)
ProfilesOf(u) == {p \in DOMAIN students : students[p].user = u}
ProfileIn(st, u) == CHOOSE p \in DOMAIN st : st[p].user = u

(* The student table holds one row per user (one-to-one). *)
StoreAcceptsProfile(st, u) == ~HasProfileIn(st, u)

EnrolledIn(st, u) == st[ProfileIn(st, u)].courses

CourseIds == DOMAIN courses

CreditValue(c) == IF c = "3" THEN 3 ELSE 4
(* The course table coerces credits to an integer and refuses anything     *)
(* else; it refuses a course without a name or a code.                     *)
StoreAcceptsCredits(c) == c \in {"3", "4"}
StoreAcceptsCourse(name, code, credits) ==
    name /= Absent /\ code /= Absent /\ StoreAcceptsCredits(credits)

Authenticate(username, password) ==
    LET hits == {u \in UserIds : users[u].username = username
                                 /\ users[u].password = password}
    IN IF hits = {} THEN Anonymous
       ELSE CHOOSE u \in hits : \A v \in hits : u <= v

---------------------------------------------------------------------------
(* Initial state: an empty database, or one holding an account that was     *)
(* provisioned outside the views and so has no student profile.             *)

LegacyAccount == [username |-> <<"a","l","i","c","e">>, email |-> "a@x.com",
                  password |-> "pw", role |-> "Student"]

Idle == [pc |-> "idle"]
Threads == {"t1", "t2"}

EmptyInit ==
    /\ users = <<>>
    /\ students = <<>>
    /\ courses = <<>>
    /\ nextCourseId = 1
    /\ session = Anonymous
    /\ resp = NoResponse
    /\ req = [t \in Threads |-> Idle]

Init ==
    /\ users \in {<<>>, <<LegacyAccount>>}
    /\ students = <<>>
    /\ courses = <<>>
    /\ nextCourseId = 1
    /\ session = Anonymous
    /\ resp = NoResponse
    /\ req = [t \in Threads |-> Idle]

---------------------------------------------------------------------------
(* LoginView *)

Filled(s) == Len(s) > 0
Given(x) == x /= ""

LoginFieldsFilled(username, password) == Filled(username) /\ Given(password)

NeedsRoleFixExactName(username, role) ==
    username = FacultyPrefix /\ role /= "Faculty"

NeedsRoleFix(username, role) ==
    StartsWith(username, FacultyPrefix) /\ role /= "Faculty"

DashboardForLowercase(role) ==
    IF role = "faculty" THEN "faculty-dashboard" ELSE "student-dashboard"

DashboardFor(role) ==
    IF role = "Faculty" THEN "faculty-dashboard" ELSE "student-dashboard"

LoginGet(back) ==
    /\ resp' = IF back THEN Redirect("index", "none")
               ELSE IF session /= Anonymous
                    THEN Redirect(DashboardFor(users[session].role), "none")
                    ELSE Render("login.html", "none")
    /\ UNCHANGED <<db, session, req>>

LoginPost(username, password) ==
    LET user == Authenticate(username, password) IN
    IF ~LoginFieldsFilled(username, password)
    THEN /\ resp' = Render("login.html", "MissingFields")
         /\ UNCHANGED <<db, session, req>>
    ELSE IF user = Anonymous
    THEN /\ resp' = Render("login.html", "InvalidCredentials")
         /\ UNCHANGED <<db, session, req>>
    ELSE LET role == IF NeedsRoleFix(username, users[user].role)
                     THEN "Faculty" ELSE users[user].role
         IN /\ users' = [users EXCEPT ![user].role = role]
            /\ session' = user
            /\ resp' = Redirect(DashboardFor(role), "none")
            /\ UNCHANGED <<students, courses, nextCourseId, req>>

---------------------------------------------------------------------------
(* RegisterView *)

RegisterFieldsFilled(username, email, password, role) ==
    Filled(username) /\ Given(email) /\ Given(password) /\ Filled(role)

NormalizedRoleCaseSensitive(role) ==
    IF role = StudentWord THEN "Student" ELSE "Faculty"

NormalizedRole(role) ==
    IF Lower(role) = StudentWord THEN "Student" ELSE "Faculty"

WantsProfile(role) == Lower(role) = StudentWord

NewUser(username, email, password, role) ==
    [username |-> username, email |-> email, password |-> password,
     role |-> NormalizedRole(role)]

NewProfile(u) == [user |-> u, courses |-> {}]

RegisterGet(back) ==
    /\ resp' = IF back THEN Redirect("index", "none")
               ELSE Render("register.html", "none")
    /\ UNCHANGED <<db, session, req>>

RegisterPost(username, email, password, role) ==
    IF ~RegisterFieldsFilled(username, email, password, role)
    THEN /\ resp' = Render("register.html", "MissingFields")
         /\ UNCHANGED <<db, session, req>>
    ELSE IF UsernameExists(username)
    THEN /\ resp' = Render("register.html", "DuplicateUsername")
         /\ UNCHANGED <<db, session, req>>
    ELSE IF EmailExists(email)
    THEN /\ resp' = Render("register.html", "DuplicateEmail")
         /\ UNCHANGED <<db, session, req>>
    ELSE IF ~StoreAcceptsUser(users, username, email)
    THEN /\ resp' = Render("register.html", "StoreError")
         /\ UNCHANGED <<db, session, req>>
    ELSE /\ Len(users) < MaxUsers
         /\ users' = Append(users, NewUser(username, email, password, role))
         /\ students' = IF WantsProfile(role)
                        THEN Append(students, NewProfile(Len(users) + 1))
                        ELSE students
         /\ resp' = Redirect("login", "RegistrationSuccessful")
         /\ UNCHANGED <<courses, nextCourseId, session, req>>

---------------------------------------------------------------------------
(* StudentDashboardView *)

IsStudentUnchecked(u) == TRUE
IsStudent(u) == users[u].role = "Student"

NeedsProfileAlways(st, u) == TRUE
NeedsProfile(st, u) == ~HasProfileIn(st, u)

AtLimitOffByOne(count) == count > MaxEnrolled
AtLimit(count) == count >= MaxEnrolled

CanEnroll(count) == count < MaxEnrolled

WithProfile(st, u) ==
    IF NeedsProfile(st, u) THEN Append(st, NewProfile(u)) ELSE st

AddCourse(st, u, id) ==
    [st EXCEPT ![ProfileIn(st, u)].courses = @ \cup {id}]

RemoveCourse(st, u, id) ==
    [st EXCEPT ![ProfileIn(st, u)].courses = @ \ {id}]

StudentGet ==
    IF session = Anonymous
    THEN /\ resp' = Redirect("login", "none")
         /\ UNCHANGED <<db, session, req>>
    ELSE IF ~IsStudent(session)
    THEN /\ resp' = Redirect("login", "AccessDenied")
         /\ UNCHANGED <<db, session, req>>
    ELSE IF NeedsProfile(students, session) /\ ~StoreAcceptsProfile(students, session)
    THEN /\ resp' = ServerError
         /\ UNCHANGED <<db, session, req>>
    ELSE /\ students' = WithProfile(students, session)
         /\ resp' = Render("student-dashboard.html",
                           IF CanEnroll(Cardinality(EnrolledIn(students', session)))
                           THEN "can_enroll" ELSE "cannot_enroll")
         /\ UNCHANGED <<users, courses, nextCourseId, session, req>>

StudentPost(action, course_id) ==
    IF session = Anonymous
    THEN /\ resp' = Redirect("login", "none")
         /\ UNCHANGED <<db, session, req>>
    ELSE IF ~IsStudent(session)
    THEN /\ resp' = Redirect("login", "AccessDenied")
         /\ UNCHANGED <<db, session, req>>
    ELSE IF NeedsProfile(students, session) /\ ~StoreAcceptsProfile(students, session)
    THEN /\ resp' = ServerError
         /\ UNCHANGED <<db, session, req>>
    ELSE LET st == WithProfile(students, session) IN
         /\ UNCHANGED <<users, courses, nextCourseId, session, req>>
         /\ IF course_id.kind = "text"
            THEN /\ students' = st
                 /\ resp' = Redirect("student-dashboard", "InvalidFieldValue")
            ELSE IF course_id.kind = "absent" \/ course_id.id \notin CourseIds
            THEN /\ students' = st
                 /\ resp' = Redirect("student-dashboard", "CourseNotFound")
            ELSE IF action = "enroll"
            THEN IF AtLimit(Cardinality(EnrolledIn(st, session)))
                 THEN /\ students' = st
                      /\ resp' = Redirect("student-dashboard", "EnrollmentLimitExceeded")
                 ELSE /\ students' = AddCourse(st, session, course_id.id)
                      /\ resp' = Redirect("student-dashboard", "Enrolled")
            ELSE IF action = "drop"
            THEN /\ students' = RemoveCourse(st, session, course_id.id)
                 /\ resp' = Redirect("student-dashboard", "Dropped")
            ELSE /\ students' = st
                 /\ resp' = Redirect("student-dashboard", "none")

---------------------------------------------------------------------------
(* FacultyDashboardView *)

IsFaculty(u) == users[u].role = "Faculty"

NewCourse(name, code, credits, u) ==
    [course_name |-> name, course_code |-> code,
     credits |-> CreditValue(credits), instructor |-> u]

OwnedCourseAnyInstructor(course_id, u) ==
    course_id.kind = "num" /\ course_id.id \in CourseIds

(* Course.objects.get(id=course_id, instructor=request.user) finds a row *)
OwnedCourse(course_id, u) ==
    /\ course_id.kind = "num"
    /\ course_id.id \in CourseIds
    /\ courses[course_id.id].instructor = u

(* request.POST.get(field, current) *)
PostGet(value, current) == IF value = Absent THEN current ELSE value

UpdatedCourse(course, name, code, credits) ==
    [course EXCEPT !.course_name = PostGet(name, @),
                   !.course_code = PostGet(code, @),
                   !.credits = IF credits = Absent THEN @ ELSE CreditValue(credits)]

CoursesAfterUpdateOfAll(id, name, code, credits) ==
    [i \in CourseIds |->
        IF courses[i].instructor = courses[id].instructor
        THEN UpdatedCourse(courses[i], name, code, credits) ELSE courses[i]]

(* The update branch: the one course found by id and instructor is saved *)
CoursesAfterUpdate(id, name, code, credits) ==
    [courses EXCEPT ![id] = UpdatedCourse(@, name, code, credits)]

(* course.delete() also removes the course's enrollment rows *)
WithoutCourse(st, id) ==
    [p \in DOMAIN st |-> [st[p] EXCEPT !.courses = @ \ {id}]]

FacultyGet ==
    /\ resp' = IF session = Anonymous THEN Redirect("login", "none")
               ELSE IF ~IsFaculty(session) THEN Redirect("login", "AccessDenied")
               ELSE Render("faculty-dashboard.html", "none")
    /\ UNCHANGED <<db, session, req>>

FacultyPost(action, course_id, name, code, credits) ==
    IF session = Anonymous
    THEN /\ resp' = Redirect("login", "none")
         /\ UNCHANGED <<db, session, req>>
    ELSE IF ~IsFaculty(session)
    THEN /\ resp' = Redirect("login", "AccessDenied")
         /\ UNCHANGED <<db, session, req>>
    ELSE IF action = "create"
    THEN IF ~StoreAcceptsCourse(name, code, credits)
         THEN /\ resp' = Redirect("faculty-dashboard", "InvalidFieldValue")
              /\ UNCHANGED <<db, session, req>>
         ELSE /\ courses' = [i \in CourseIds \cup {nextCourseId} |->
                               IF i = nextCourseId
                               THEN NewCourse(name, code, credits, session)
                               ELSE courses[i]]
              /\ nextCourseId' = nextCourseId + 1
              /\ resp' = Redirect("faculty-dashboard", "Created")
              /\ UNCHANGED <<users, students, session, req>>
    ELSE IF action = "delete" /\ course_id.kind /= "absent"
    THEN IF course_id.kind = "text"
         THEN /\ resp' = ServerError
              /\ UNCHANGED <<db, session, req>>
         ELSE IF ~OwnedCourse(course_id, session)
         THEN /\ resp' = Redirect("faculty-dashboard", "CourseNotFound")
              /\ UNCHANGED <<db, session, req>>
         ELSE /\ courses' = [i \in CourseIds \ {course_id.id} |-> courses[i]]
              /\ students' = WithoutCourse(students, course_id.id)
              /\ resp' = Redirect("faculty-dashboard", "Deleted")
              /\ UNCHANGED <<users, nextCourseId, session, req>>
    ELSE IF action = "update" /\ course_id.kind /= "absent"
    THEN IF course_id.kind = "text"
         THEN /\ resp' = Redirect("faculty-dashboard", "InvalidFieldValue")
              /\ UNCHANGED <<db, session, req>>
         ELSE IF ~OwnedCourse(course_id, session)
         THEN /\ resp' = Redirect("faculty-dashboard", "CourseNotFound")
              /\ UNCHANGED <<db, session, req>>
         ELSE IF credits /= Absent /\ ~StoreAcceptsCredits(credits)
         THEN /\ resp' = Redirect("faculty-dashboard", "InvalidFieldValue")
              /\ UNCHANGED <<db, session, req>>
         ELSE /\ courses' = CoursesAfterUpdate(course_id.id, name, code, credits)
              /\ resp' = Redirect("faculty-dashboard", "Updated")
              /\ UNCHANGED <<users, students, nextCourseId, session, req>>
    ELSE /\ resp' = Redirect("faculty-dashboard", "none")
         /\ UNCHANGED <<db, session, req>>

---------------------------------------------------------------------------
(* LogoutView, IndexView *)

LogoutGet ==
    /\ session' = Anonymous
    /\ resp' = Redirect("index", "clear_tokens")
    /\ UNCHANGED <<db, req>>

IndexGet ==
    /\ resp' = Render("index.html", "none")
    /\ UNCHANGED <<db, session, req>>

---------------------------------------------------------------------------
(* Every request handled as one atomic step, its inputs drawn from scope S *)

NextIn(S) ==
    \/ \E back \in BOOLEAN : LoginGet(back)
    \/ \E username \in S.usernames \cup {<<>>}, password \in Passwords \cup {"", "bad"} :
          LoginPost(username, password)
    \/ \E back \in BOOLEAN : RegisterGet(back)
    \/ \E f \in RegisterInputs(S.usernames, S.roles) :
          RegisterPost(f.username, f.email, f.password, f.role)
    \/ StudentGet
    \/ \E action \in StudentActions, course_id \in CourseIdInputs(S.maxCourses) :
          StudentPost(action, course_id)
    \/ FacultyGet
    \/ /\ nextCourseId <= S.maxCourses
       /\ \E f \in S.forms :
             FacultyPost("create", NoCourseId, f.name, f.code, f.credits)
    \/ \E course_id \in CourseIdInputs(S.maxCourses) :
          FacultyPost("delete", course_id, Absent, Absent, Absent)
    \/ \E course_id \in CourseIdInputs(S.maxCourses), f \in S.forms :
          FacultyPost("update", course_id, f.name, f.code, f.credits)
    \/ FacultyPost("other", NoCourseId, Absent, Absent, Absent)
    \/ LogoutGet
    \/ IndexGet

Next == NextIn(EnrollScope)
CatalogNext == NextIn(CatalogScope)

Spec == Init /\ [][Next]_vars
CatalogSpec == EmptyInit /\ [][CatalogNext]_vars

---------------------------------------------------------------------------
(* Requests handled by worker threads, one store access per step.          *)
(* req[t] is the position of thread t's handler and its local variables.   *)

Busy(t) == req[t].pc /= "idle"
Registering == {t \in Threads : req[t].pc \in {"reg_username", "reg_email", "reg_create"}}

Reply(t, r) ==
    /\ resp' = r
    /\ req' = [req EXCEPT ![t] = Idle]

Goto(t, r) ==
    /\ req' = [req EXCEPT ![t] = r]
    /\ UNCHANGED resp

(* RegisterView.post *)

RegStart(t, f) ==
    /\ ~Busy(t)
    /\ Len(users) + Cardinality(Registering) < MaxUsers
    /\ IF ~RegisterFieldsFilled(f.username, f.email, f.password, f.role)
       THEN Reply(t, Render("register.html", "MissingFields"))
       ELSE Goto(t, [pc |-> "reg_username", form |-> f])
    /\ UNCHANGED <<db, session>>

RegCheckUsername(t) ==
    /\ req[t].pc = "reg_username"
    /\ IF UsernameExists(req[t].form.username)
       THEN Reply(t, Render("register.html", "DuplicateUsername"))
       ELSE Goto(t, [req[t] EXCEPT !.pc = "reg_email"])
    /\ UNCHANGED <<db, session>>

RegCheckEmail(t) ==
    /\ req[t].pc = "reg_email"
    /\ IF EmailExists(req[t].form.email)
       THEN Reply(t, Render("register.html", "DuplicateEmail"))
       ELSE Goto(t, [req[t] EXCEPT !.pc = "reg_create"])
    /\ UNCHANGED <<db, session>>

RegCreateUser(t) ==
    LET f == req[t].form IN
    /\ req[t].pc = "reg_create"
    /\ IF ~StoreAcceptsUser(users, f.username, f.email)
       THEN /\ Reply(t, Render("register.html", "StoreError"))
            /\ UNCHANGED <<db, session>>
       ELSE /\ users' = Append(users, NewUser(f.username, f.email, f.password, f.role))
            /\ IF WantsProfile(f.role)
               THEN Goto(t, [pc |-> "reg_profile", user |-> Len(users) + 1])
               ELSE Reply(t, Redirect("login", "RegistrationSuccessful"))
            /\ UNCHANGED <<students, courses, nextCourseId, session>>

RegCreateProfile(t) ==
    /\ req[t].pc = "reg_profile"
    /\ IF ~StoreAcceptsProfile(students, req[t].user)
       THEN /\ Reply(t, Render("register.html", "StoreError"))
            /\ UNCHANGED <<db, session>>
       ELSE /\ students' = Append(students, NewProfile(req[t].user))
            /\ Reply(t, Redirect("login", "RegistrationSuccessful"))
            /\ UNCHANGED <<users, courses, nextCourseId, session>>

(* LoginView.post *)

LoginStart(t, username, password) ==
    LET user == Authenticate(username, password) IN
    /\ ~Busy(t)
    /\ IF ~LoginFieldsFilled(username, password)
       THEN Reply(t, Render("login.html", "MissingFields"))
       ELSE IF user = Anonymous
       THEN Reply(t, Render("login.html", "InvalidCredentials"))
       ELSE IF NeedsRoleFix(username, users[user].role)
       THEN Goto(t, [pc |-> "login_save", user |-> user, role |-> "Faculty"])
       ELSE Goto(t, [pc |-> "login_session", user |-> user, role |-> users[user].role])
    /\ UNCHANGED <<db, session>>

LoginSave(t) ==
    /\ req[t].pc = "login_save"
    /\ users' = [users EXCEPT ![req[t].user].role = req[t].role]
    /\ Goto(t, [req[t] EXCEPT !.pc = "login_session"])
    /\ UNCHANGED <<students, courses, nextCourseId, session>>

LoginSession(t) ==
    /\ req[t].pc = "login_session"
    /\ session' = req[t].user
    /\ Reply(t, Redirect(DashboardFor(req[t].role), "none"))
    /\ UNCHANGED db

(* StudentDashboardView.get and .post *)

StudentStart(t, method, action, course_id) ==
    /\ ~Busy(t)
    /\ IF session = Anonymous
       THEN Reply(t, Redirect("login", "none"))
       ELSE IF ~IsStudent(session)
       THEN Reply(t, Redirect("login", "AccessDenied"))
       ELSE Goto(t, [pc |-> "profile_test", user |-> session, method |-> method,
                     action |-> action, course_id |-> course_id])
    /\ UNCHANGED <<db, session>>

ProfileTest(t) ==
    /\ req[t].pc = "profile_test"
    /\ Goto(t, [req[t] EXCEPT !.pc = IF NeedsProfile(students, req[t].user)
                                      THEN "profile_create"
                                      ELSE IF req[t].method = "GET" THEN "render"
                                      ELSE "get_course"])
    /\ UNCHANGED <<db, session>>

ProfileCreate(t) ==
    /\ req[t].pc = "profile_create"
    /\ IF ~StoreAcceptsProfile(students, req[t].user)
       THEN /\ Reply(t, ServerError)
            /\ UNCHANGED <<db, session>>
       ELSE /\ students' = Append(students, NewProfile(req[t].user))
            /\ Goto(t, [req[t] EXCEPT !.pc = IF req[t].method = "GET" THEN "render"
                                              ELSE "get_course"])
            /\ UNCHANGED <<users, courses, nextCourseId, session>>

DashboardRender(t) ==
    /\ req[t].pc = "render"
    /\ Reply(t, Render("student-dashboard.html",
                       IF CanEnroll(Cardinality(EnrolledIn(students, req[t].user)))
                       THEN "can_enroll" ELSE "cannot_enroll"))
    /\ UNCHANGED <<db, session>>

GetCourse(t) ==
    LET course_id == req[t].course_id IN
    /\ req[t].pc = "get_course"
    /\ IF course_id.kind = "text"
       THEN Reply(t, Redirect("student-dashboard", "InvalidFieldValue"))
       ELSE IF course_id.kind = "absent" \/ course_id.id \notin CourseIds
       THEN Reply(t, Redirect("student-dashboard", "CourseNotFound"))
       ELSE IF req[t].action = "enroll"
       THEN Goto(t, [req[t] EXCEPT !.pc = "count"])
       ELSE IF req[t].action = "drop"
       THEN Goto(t, [req[t] EXCEPT !.pc = "remove"])
       ELSE Reply(t, Redirect("student-dashboard", "none"))
    /\ UNCHANGED <<db, session>>

CountEnrolled(t) ==
    /\ req[t].pc = "count"
    /\ IF AtLimit(Cardinality(EnrolledIn(students, req[t].user)))
       THEN Reply(t, Redirect("student-dashboard", "EnrollmentLimitExceeded"))
       ELSE Goto(t, [req[t] EXCEPT !.pc = "add"])
    /\ UNCHANGED <<db, session>>

AddEnrollment(t) ==
    /\ req[t].pc = "add"
    /\ students' = AddCourse(students, req[t].user, req[t].course_id.id)
    /\ Reply(t, Redirect("student-dashboard", "Enrolled"))
    /\ UNCHANGED <<users, courses, nextCourseId, session>>

RemoveEnrollment(t) ==
    /\ req[t].pc = "remove"
    /\ students' = RemoveCourse(students, req[t].user, req[t].course_id.id)
    /\ Reply(t, Redirect("student-dashboard", "Dropped"))
    /\ UNCHANGED <<users, courses, nextCourseId, session>>

(* The concurrent scope: faculty requests create courses, handled in one   *)
(* step, as is logout.                                                      *)
ConcScope == [maxCourses |-> MaxCourses,
              usernames |-> {<<"a","l","i","c","e">>,
                             <<"f","a","c","u","l","t","y","1">>},
              roles |-> {<<"S","t","u","d","e","n","t">>, <<"f","a","c","u","l","t","y">>},
              forms |-> {Form("n1", "c1", "3")}]

ConcNext ==
    \/ \E t \in Threads :
          \/ \E f \in [username : ConcScope.usernames, email : Emails,
                       password : Passwords, role : ConcScope.roles \cup {<<>>}] :
                RegStart(t, f)
          \/ RegCheckUsername(t)
          \/ RegCheckEmail(t)
          \/ RegCreateUser(t)
          \/ RegCreateProfile(t)
          \/ \E username \in ConcScope.usernames, password \in Passwords :
                LoginStart(t, username, password)
          \/ LoginSave(t)
          \/ LoginSession(t)
          \/ StudentStart(t, "GET", "none", NoCourseId)
          \/ \E action \in {"enroll", "drop"}, id \in 1..ConcScope.maxCourses :
                StudentStart(t, "POST", action, [kind |-> "num", id |-> id])
          \/ ProfileTest(t)
          \/ ProfileCreate(t)
          \/ DashboardRender(t)
          \/ GetCourse(t)
          \/ CountEnrolled(t)
          \/ AddEnrollment(t)
          \/ RemoveEnrollment(t)
    \/ /\ nextCourseId <= ConcScope.maxCourses
       /\ \E f \in ConcScope.forms :
             FacultyPost("create", NoCourseId, f.name, f.code, f.credits)
    \/ LogoutGet

ConcSpec == Init /\ [][ConcNext]_vars

(* A worker thread that has begun a request runs its handler to the end *)
ThreadStep(t) ==
    \/ RegCheckUsername(t) \/ RegCheckEmail(t) \/ RegCreateUser(t) \/ RegCreateProfile(t)
    \/ LoginSave(t) \/ LoginSession(t)
    \/ ProfileTest(t) \/ ProfileCreate(t) \/ DashboardRender(t)
    \/ GetCourse(t) \/ CountEnrolled(t) \/ AddEnrollment(t) \/ RemoveEnrollment(t)

(* The database that holds the account without a profile *)
LegacyInit == Init /\ users = <<LegacyAccount>>

FairConcSpec ==
    LegacyInit /\ [][ConcNext]_vars /\ \A t \in Threads : WF_vars(ThreadStep(t))

---------------------------------------------------------------------------
(* Properties.  They are stated on the stores and the replies themselves,  *)
(* not through the helper predicates of the handlers.                      *)

RoleOf(u) == users[u].role
CoursesOf(u) == UNION {students[p].courses : p \in ProfilesOf(u)}
NumId(i) == [kind |-> "num", id |-> i]
LimitReply == Redirect("student-dashboard", "EnrollmentLimitExceeded")

(* C1: handled one at a time, an enroll request by a student who already   *)
(* has two courses is refused with the enrollment-limit message and leaves *)
(* every store unchanged, whichever existing course it names; and no       *)
(* profile ever holds more than two courses.                               *)
C1_EnrollLimit ==
    /\ [](\A p \in DOMAIN students : Cardinality(students[p].courses) <= 2)
    /\ [][\A i \in CourseIds :
            ( /\ session /= Anonymous
              /\ RoleOf(session) = "Student"
              /\ Cardinality(CoursesOf(session)) >= 2
              /\ StudentPost("enroll", NumId(i)) )
            => (resp' = LimitReply /\ UNCHANGED <<db, session>>)]_vars

C1_Witness ==
    /\ resp = LimitReply
    /\ session /= Anonymous
    /\ Cardinality(CoursesOf(session)) = 2
    /\ CourseIds \ CoursesOf(session) /= {}

DeniedReply == Redirect("login", IF session = Anonymous THEN "none" ELSE "AccessDenied")

AnyStudentRequest ==
    \/ StudentGet
    \/ \E action \in StudentActions, course_id \in CourseIdInputs(MaxCourses) :
          StudentPost(action, course_id)

AnyFacultyRequest ==
    \/ FacultyGet
    \/ \E action \in {"create", "delete", "update", "other"},
          course_id \in CourseIdInputs(MaxCourses), f \in EnrollScope.forms :
          FacultyPost(action, course_id, f.name, f.code, f.credits)

Denied == resp' = DeniedReply /\ UNCHANGED <<db, session>>

(* C4: a student-dashboard request without a session, or by a user whose   *)
(* role is not Student, is redirected to login (with the access-denied     *)
(* message when a user is signed in) and changes no store: no enrollment   *)
(* changes, no profile is created.  A faculty-dashboard request without a  *)
(* session, or by a user whose role is not Faculty, is answered likewise   *)
(* and creates, updates or deletes no course.                              *)
C4_RoleGate ==
    /\ [][(session = Anonymous \/ RoleOf(session) /= "Student")
            => (Denied \/ ~AnyStudentRequest)]_vars
    /\ [][(session = Anonymous \/ RoleOf(session) /= "Faculty")
            => (Denied \/ ~AnyFacultyRequest)]_vars

(* A Faculty-role user without a profile was turned away from the student  *)
(* dashboard while courses exist.                                          *)
C4_Witness ==
    /\ resp = Redirect("login", "AccessDenied")
    /\ session /= Anonymous
    /\ RoleOf(session) = "Faculty"
    /\ ProfilesOf(session) = {}
    /\ CourseIds /= {}

StudentSpellings == { <<"s","t","u","d","e","n","t">>, <<"S","t","u","d","e","n","t">> }

(* C5: a register request with all four fields present and a username and  *)
(* email no stored user has creates exactly one user, Student when the     *)
(* submitted role spells "student" in any letter case and Faculty          *)
(* otherwise; a new Student has exactly one profile, which is empty, a new *)
(* Faculty has none; the session is left as it was and the reply           *)
(* redirects to login.                                                     *)
C5_Register ==
    [][\A f \in [username : Usernames, email : Emails, password : Passwords,
                 role : RoleInputs] :
         ( /\ \A u \in UserIds : users[u].username /= f.username
                                 /\ users[u].email /= f.email
           /\ RegisterPost(f.username, f.email, f.password, f.role) )
         => LET new == Len(users) + 1 IN
            /\ users' = Append(users, [username |-> f.username, email |-> f.email,
                                       password |-> f.password,
                                       role |-> IF f.role \in StudentSpellings
                                                THEN "Student" ELSE "Faculty"])
            /\ IF f.role \in StudentSpellings
               THEN students' = Append(students, [user |-> new, courses |-> {}])
               ELSE students' = students
            /\ \A p \in DOMAIN students : students[p].user /= new
            /\ session' = session
            /\ resp'.status = "redirect" /\ resp'.to = "login"
            /\ UNCHANGED <<courses, nextCourseId>>]_vars

(* A registration with the role spelled "Student" has just succeeded. *)
C5_Witness ==
    /\ resp = Redirect("login", "RegistrationSuccessful")
    /\ session = Anonymous
    /\ Len(users) = 2
    /\ RoleOf(2) = "Student"
    /\ Cardinality(ProfilesOf(2)) = 1
    /\ CoursesOf(2) = {}
    /\ RoleOf(1) = "Faculty" /\ ProfilesOf(1) = {}

FacultyNamed == { <<"f","a","c","u","l","t","y","1">> }

Matches(u, username, password) ==
    users[u].username = username /\ users[u].password = password

(* C7: a login with valid credentials signs the user in and redirects to   *)
(* the faculty dashboard exactly when the stored role after the request is *)
(* Faculty, otherwise to the student dashboard; a username starting with   *)
(* "faculty" whose stored role is not Faculty has the role set to Faculty  *)
(* and is sent to the faculty dashboard.  A login with a missing field or  *)
(* wrong credentials signs nobody in, renders the form again and changes   *)
(* no role.                                                                *)
C7_Login ==
    [][\A username \in Usernames \cup {<<>>}, password \in Passwords \cup {"", "bad"} :
         LoginPost(username, password)
         => IF \E u \in UserIds : Matches(u, username, password)
            THEN \E u \in UserIds :
                   /\ Matches(u, username, password)
                   /\ session' = u
                   /\ resp'.status = "redirect"
                   /\ resp'.to = IF users'[u].role = "Faculty"
                                 THEN "faculty-dashboard" ELSE "student-dashboard"
                   /\ users'[u].role = IF username \in FacultyNamed
                                       THEN "Faculty" ELSE users[u].role
                   /\ \A v \in UserIds \ {u} : users'[v] = users[v]
                   /\ UNCHANGED <<students, courses, nextCourseId>>
            ELSE /\ resp'.status = "render" /\ resp'.to = "login.html"
                 /\ resp'.msg = IF username = <<>> \/ password = ""
                                THEN "MissingFields" ELSE "InvalidCredentials"
                 /\ UNCHANGED <<db, session>>]_vars

(* A user named faculty1 who registered as a student (and so has a         *)
(* profile) is signed in with the role Faculty on the faculty dashboard.   *)
C7_Witness ==
    /\ resp = Redirect("faculty-dashboard", "none")
    /\ session /= Anonymous
    /\ users[session].username \in FacultyNamed
    /\ RoleOf(session) = "Faculty"
    /\ ProfilesOf(session) /= {}

NotFoundReply == Redirect("faculty-dashboard", "CourseNotFound")

C8_UpdateFrame ==
    /\ [][\A i \in DOMAIN courses' :
            IF i \in CourseIds
            THEN courses'[i].instructor = courses[i].instructor
            ELSE /\ session /= Anonymous
                 /\ RoleOf(session) = "Faculty"
                 /\ courses'[i].instructor = session]_vars
    /\ [][\A i \in CourseIds, f \in CatalogScope.forms :
            \/ /\ DOMAIN courses' = CourseIds
               /\ \A j \in CourseIds \ {i} : courses'[j] = courses[j]
               /\ courses'[i].instructor = courses[i].instructor
               /\ UNCHANGED <<users, students, nextCourseId, session>>
            \/ resp'.msg /= "Updated"
            \/ ~FacultyPost("update", NumId(i), f.name, f.code, f.credits)]_vars

(* An update has just changed name, code and credits of one of two courses *)
(* of the same instructor while a student is enrolled.                     *)
C8_Witness ==
    /\ resp = Redirect("faculty-dashboard", "Updated")
    /\ \E i, j \in CourseIds :
          /\ i /= j
          /\ courses[i].instructor = courses[j].instructor
          /\ courses[i] = [course_name |-> "n2", course_code |-> "c2",
                           credits |-> 4, instructor |-> session]
          /\ courses[j].course_name = "n1"
    /\ \E p \in DOMAIN students : students[p].courses /= {}

(* C2: with the count read and the add as separate steps of concurrently  *)
(* handled requests, no profile ever holds more than two courses.          *)
C2_AtMostTwo ==
    \A p \in DOMAIN students : Cardinality(students[p].courses) <= 2

RegisterError(msg) == Render("register.html", msg)

(* C6: a register request with a missing field, or whose username or email *)
(* is found in use, is answered with the matching error and changes no     *)
(* store; users are only ever appended; and in every state, under          *)
(* concurrently handled registrations too, no two users share a username   *)
(* and no two share an email.                                              *)
C6_UniqueUsers ==
    /\ [](\A u, v \in UserIds :
             u /= v => (users[u].username /= users[v].username
                        /\ users[u].email /= users[v].email))
    /\ [][\A t \in Threads :
            /\ ( /\ req[t].pc = "reg_username"
                 /\ req'[t] /= req[t]
                 /\ \E u \in UserIds : users[u].username = req[t].form.username )
               => (resp' = RegisterError("DuplicateUsername")
                   /\ req'[t] = Idle /\ UNCHANGED <<db, session>>)
            /\ ( /\ req[t].pc = "reg_email"
                 /\ req'[t] /= req[t]
                 /\ \E u \in UserIds : users[u].email = req[t].form.email )
               => (resp' = RegisterError("DuplicateEmail")
                   /\ req'[t] = Idle /\ UNCHANGED <<db, session>>)
            /\ \A f \in FullForms(ConcScope.usernames, {<<>>}) :
                  \/ resp' = RegisterError("MissingFields")
                       /\ UNCHANGED <<db, session, req>>
                  \/ ~RegStart(t, f)]_vars
    /\ [][users' = users
          \/ \E t \in Threads :
                /\ req[t].pc = "reg_create"
                /\ users' = Append(users, [username |-> req[t].form.username,
                                           email |-> req[t].form.email,
                                           password |-> req[t].form.password,
                                           role |-> users'[Len(users')].role])
          \/ (Len(users') = Len(users)
              /\ \A u \in UserIds : users'[u].username = users[u].username
                                    /\ users'[u].email = users[u].email)]_vars

(* Two registrations raced: the later creation was refused by the store.   *)
C6_Witness ==
    /\ resp = RegisterError("StoreError")
    /\ Len(users) = 1

AfterProfile == {"render", "get_course", "count", "add", "remove"}

(* C9: no user ever has more than one profile, also when two dashboard     *)
(* requests of one user both test for the profile before either creates    *)
(* it; a dashboard request reads or changes enrollments only once its user *)
(* has a profile; a profile is created only empty and only for a user who  *)
(* has none, and a request whose user has a profile does not set out to    *)
(* create one; and once a Student's dashboard request has passed the role  *)
(* check, that user eventually has exactly one profile.                    *)
C9_OneProfile ==
    /\ [](\A u \in UserIds : Cardinality(ProfilesOf(u)) <= 1)
    /\ [](\A t \in Threads :
             req[t].pc \in AfterProfile => Cardinality(ProfilesOf(req[t].user)) = 1)
    /\ [][students' = students
          \/ Len(students') = Len(students)
          \/ \E u \in DOMAIN users' :
                /\ ProfilesOf(u) = {}
                /\ students' = Append(students, [user |-> u, courses |-> {}])]_vars
    /\ [][\A t \in Threads :
            (req[t].pc = "profile_test" /\ ProfilesOf(req[t].user) /= {})
            => req'[t].pc /= "profile_create"]_vars
    /\ \A t \in Threads, u \in 1..MaxUsers :
          (req[t].pc = "profile_test" /\ req[t].user = u)
             ~> (u \in UserIds /\ Cardinality(ProfilesOf(u)) = 1)

(* Two dashboard requests of the account without a profile raced: one      *)
(* created the profile, the other was refused by the store.                *)
C9_Witness ==
    /\ resp = ServerError
    /\ Cardinality(ProfilesOf(1)) = 1
    /\ users[1] = LegacyAccount

(* C10: a user whose name starts with "faculty" never has an enrolled      *)
(* course: whoever is signed in under such a name has the role Faculty, a  *)
(* role never goes from Faculty back to Student, and no student-dashboard  *)
(* handler runs for such a user.                                           *)
C10_FacultyNamedNeverEnrolled ==
    /\ [](\A u \in UserIds : users[u].username \in FacultyNamed => CoursesOf(u) = {})
    /\ []((session /= Anonymous /\ users[session].username \in FacultyNamed)
             => RoleOf(session) = "Faculty")
    /\ [](\A t \in Threads :
             req[t].pc \in AfterProfile \cup {"profile_test", "profile_create"}
             => users[req[t].user].username \notin FacultyNamed)
    /\ [][\A u \in UserIds : RoleOf(u) = "Faculty" => users'[u].role = "Faculty"]_vars

(* faculty1 registered as a student, signed in, and was turned away from   *)
(* the student dashboard while courses exist.                              *)
C10_Witness ==
    /\ resp = Redirect("login", "AccessDenied")
    /\ session /= Anonymous
    /\ users[session].username \in FacultyNamed
    /\ ProfilesOf(session) /= {}
    /\ CourseIds /= {}

===========================================================================
